---- MODULE Spec2Model ----
(***************************************************************************)
(* RSA parameter-weakness attacks: Fermat factorization, small public      *)
(* exponent root recovery, Wiener's continued-fraction attack, trial       *)
(* division on a small modulus, and the number-theoretic helpers they      *)
(* share.  Every entry point is a pure function of its arguments; the      *)
(* state machine below is one call in progress: an entry point is invoked  *)
(* with arguments drawn from bounded sets, the bounded searches, the       *)
(* Miller-Rabin witness loop and the continued-fraction loop run one       *)
(* iteration per step, and the call ends with a Python outcome (a value,   *)
(* None, an exception, or a loop that never ends).                         *)
(***************************************************************************)
EXTENDS Integers, Sequences, FiniteSets, TLC

VARIABLES
    pc,     \* "idle" | "keyed" | "fermat_loop" | "small_e_loop" | "wiener_loop"
            \*   | "is_prime_loop" | "cf_loop" | "done" | "checked"
    key,    \* the secret part [p, q, d] of a generated key pair
    fn,     \* the entry point that was called
    arg,    \* its arguments, a record named after the Python parameters
    loc,    \* the locals of the running loop, or of the demo's round trip
    ret     \* the outcome of the call

vars == <<pc, key, fn, arg, loc, ret>>

(***************************************************************************)
(* Bounds of the model.                                                    *)
(***************************************************************************)
MaxN == 38          \* moduli 0..MaxN are tried by every attack
MinN == 3           \* moduli -MinN..-1 are tried as invalid input
MaxIter == 7        \* max_iterations of fermat_factorization ranges over 0..MaxIter
MaxPrime == 13      \* Fermat is also run on p*q for all primes p, q <= MaxPrime
MaxE == 7           \* public exponents 1..MaxE
MaxA == 12          \* mod_inverse(a, m) is called for a in 0..MaxA
MaxM == 12          \*   and m in 1..MaxM
MaxX == 40          \* the root routines are called on x in -MinX..MaxX
MinX == 3
MaxDegree == 4      \*   with root degrees (and small exponents e) 1..MaxDegree
MaxPrecision == 6   \*   and Newton iteration caps 0..MaxPrecision
MaxOffset == 3      \* max_k of attack_small_e ranges over 0..MaxOffset
WienerPrimeLow == 83    \* keys with a chosen private exponent are built from
WienerPrimeHigh == 113  \*   the primes in WienerPrimeLow..WienerPrimeHigh
MaxD == 11          \*   and private exponents 1..MaxD
MaxMessage == 40    \* the demo encrypts messages 0..MaxMessage below n
MaxRounds == 3       \* is_prime(n, k) is called with k in 0..MaxRounds rounds

(***************************************************************************)
(* Python outcomes.                                                        *)
(***************************************************************************)
None == [tag |-> "None", x |-> 0, y |-> 0]
IntVal(v) == [tag |-> "int", x |-> v, y |-> 0]
Tuple2(u, v) == [tag |-> "tuple", x |-> u, y |-> v]
\* the tuple (n, None) that attack_weak_rsa builds when mod_inverse fails
TupleNone(u) == [tag |-> "tuple_none", x |-> u, y |-> 0]
\* a list of the given length; the list itself stays in loc
ListVal(len) == [tag |-> "list", x |-> len, y |-> 0]
\* True and False
BoolVal(b) == [tag |-> "bool", x |-> IF b THEN 1 ELSE 0, y |-> 0]
Raise(exc) == [tag |-> exc, x |-> 0, y |-> 0]
\* a loop of the call never terminates
Hang == [tag |-> "hang", x |-> 0, y |-> 0]
Pending == [tag |-> "pending", x |-> 0, y |-> 0]

IsException(r) == r.tag \in {"ValueError", "IndexError", "ZeroDivisionError", "TypeError"}

NoArg == [none |-> 0]
NoLoc == [a |-> 0, i |-> 0]
NoKey == [p |-> 0, q |-> 0, d |-> 0]

(***************************************************************************)
(* Python integer arithmetic.                                              *)
(***************************************************************************)
RECURSIVE Pow(_, _)
\* b ** k for k >= 0 (Python: 0 ** 0 = 1)
Pow(b, k) == IF k = 0 THEN 1 ELSE b * Pow(b, k - 1)

Abs(v) == IF v < 0 THEN -v ELSE v

\* a // b and a % b with Python's floor semantics, b # 0 of either sign
PyFloorDiv(a, b) == IF b > 0 THEN a \div b ELSE (-a) \div (-b)
PyMod(a, b) == a - b * PyFloorDiv(a, b)

RECURSIVE isqrt_search(_, _, _)
isqrt_search(n, low, high) ==
    IF low >= high THEN low
    ELSE LET mid == (low + high + 1) \div 2 IN
         IF mid <= n \div mid THEN isqrt_search(n, mid, high)
                           ELSE isqrt_search(n, low, mid - 1)

\* math.isqrt(n) for n >= 0: the floor of the square root
isqrt(n) == isqrt_search(n, 0, n)

(***************************************************************************)
(* rsa.py                                                                  *)
(***************************************************************************)
DefaultRounds == 40

RECURSIVE ModPow(_, _, _)
\* the built-in pow(b, k, m) for k >= 0 and m >= 1
ModPow(b, k, m) ==
    IF k = 0 THEN 1 % m
    ELSE LET h == ModPow(b, k \div 2, m) IN
         IF k % 2 = 0 THEN (h * h) % m ELSE (((h * h) % m) * (b % m)) % m

RECURSIVE two_adic_split(_, _)
\* n - 1 = 2^r * d with d odd, lines 38-41: <<r, d>>
two_adic_split(r, d) ==
    IF d % 2 = 0 THEN two_adic_split(r + 1, d \div 2) ELSE <<r, d>>

RECURSIVE squaring_reaches_minus_one(_, _, _)
\* the inner for loop, lines 51-56: TRUE when it breaks on x = n - 1
squaring_reaches_minus_one(x, n, rounds) ==
    IF rounds <= 0 THEN FALSE
    ELSE LET x2 == (x * x) % n IN
         IF x2 = n - 1 THEN TRUE ELSE squaring_reaches_minus_one(x2, n, rounds - 1)

\* the round with its test x == n - 1 before the squarings left out
round_passes_without_minus_one(n, a) ==
    LET rd == two_adic_split(0, n - 1)
        x == ModPow(a, rd[2], n)
    IN  \/ x = 1
        \/ squaring_reaches_minus_one(x, n, rd[1] - 1)

\* one round of the witness loop with the drawn base a, lines 45-56:
\* TRUE when the round does not prove n composite
round_passes(n, a) ==
    LET rd == two_adic_split(0, n - 1)
        x == ModPow(a, rd[2], n)
    IN  \/ x = 1
        \/ x = n - 1
        \/ squaring_reaches_minus_one(x, n, rd[1] - 1)

\* is_prime(n, k): the set of results the k random draws of a from
\* randrange(2, n - 1) can produce
is_prime(n, k) ==
    IF n < 2 THEN {FALSE}
    ELSE IF n = 2 \/ n = 3 THEN {TRUE}
    ELSE IF n % 2 = 0 THEN {FALSE}
    ELSE IF k <= 0 THEN {TRUE}
    ELSE {b \in BOOLEAN :
            \/ b /\ \E a \in 2..(n - 2) : round_passes(n, a)
            \/ ~b /\ \E a \in 2..(n - 2) : ~round_passes(n, a)}

RECURSIVE extended_gcd_sign_slip(_, _)
\* the back-substitution with its sign flipped: x = y1 + (b // a) * x1
extended_gcd_sign_slip(a, b) ==
    IF a = 0 THEN <<b, 0, 1>>
    ELSE LET r == extended_gcd_sign_slip(b % a, a) IN
         <<r[1], r[3] + (b \div a) * r[2], r[2]>>

RECURSIVE extended_gcd(_, _)
\* <<gcd, x, y>> with a*x + b*y = gcd, for a, b >= 0
extended_gcd(a, b) ==
    IF a = 0 THEN <<b, 0, 1>>
    ELSE LET r == extended_gcd(b % a, a) IN
         <<r[1], r[3] - (b \div a) * r[2], r[2]>>

\* mod_inverse(a, m) for a >= 0, m >= 0; x % m raises when m = 0
mod_inverse(a, m) ==
    LET r == extended_gcd(a, m) IN
    IF r[1] # 1 THEN None
    ELSE IF m = 0 THEN Raise("ZeroDivisionError")
    ELSE IntVal(((r[2] % m) + m) % m)

\* encrypt(message, public_key) with e, n = public_key; n >= 1
encrypt(message, public_key) == ModPow(message, public_key[1], public_key[2])

\* decrypt(ciphertext, private_key) with d, n = private_key; n >= 1
decrypt(ciphertext, private_key) == ModPow(ciphertext, private_key[1], private_key[2])

(***************************************************************************)
(* fermat_attack.py                                                        *)
(***************************************************************************)
\* the start left at the floor of the square root
fermat_start_floor(n) == isqrt(n)

\* a = ceil(sqrt(n)), lines 35-37
fermat_start(n) ==
    LET a == isqrt(n) IN IF a * a < n THEN a + 1 ELSE a

\* the perfect-square test weakened to b * b <= b_squared
fermat_try_square_untested(n, a) ==
    LET b_squared == a * a - n
        b == isqrt(b_squared)
    IN  IF b * b <= b_squared THEN Tuple2(a - b, a + b) ELSE None

\* one pass of the loop body, lines 41-51: the pair, or None to go on
fermat_try(n, a) ==
    LET b_squared == a * a - n
        b == isqrt(b_squared)
    IN  IF b * b = b_squared THEN Tuple2(a - b, a + b) ELSE None

RECURSIVE fermat_search(_, _, _, _)
fermat_search(n, a, i, max_iterations) ==
    IF i >= max_iterations THEN None
    ELSE IF fermat_try(n, a) # None THEN fermat_try(n, a)
    ELSE fermat_search(n, a + 1, i + 1, max_iterations)

\* the whole call; math.isqrt raises ValueError on a negative argument
fermat_factorization(n, max_iterations) ==
    IF n < 0 THEN Raise("ValueError")
    ELSE fermat_search(n, fermat_start(n), 0, max_iterations)

DefaultMaxIterations == 100000

\* attack_weak_rsa, lines 92-104, once fermat_factorization returned (p, q):
\* the returned tuple (n, d); d is None when mod_inverse finds no inverse
weak_rsa_key(n, e, p, q) ==
    LET phi == (p - 1) * (q - 1)
        d == mod_inverse(e, phi)
    IN  IF IsException(d) THEN d
        ELSE IF d = None THEN TupleNone(n)
        ELSE Tuple2(n, d.x)

\* attack_weak_rsa(public_key) with n, e = public_key
attack_weak_rsa(n, e) ==
    LET result == fermat_factorization(n, DefaultMaxIterations) IN
    IF IsException(result) THEN result
    ELSE IF result = None THEN None
    ELSE weak_rsa_key(n, e, result.x, result.y)

(***************************************************************************)
(* small_modulus_attack.py                                                 *)
(***************************************************************************)
DefaultMaxTrial == 1000000

Min(u, v) == IF u <= v THEN u ELSE v

RECURSIVE small_modulus_search(_, _, _, _)
\* the for loop over i, lines 29-44: the set of values the call can return,
\* one for each way the random draws inside is_prime can fall
small_modulus_search(e, n, i, stop) ==
    IF i >= stop THEN {None}
    ELSE IF n % i # 0 THEN small_modulus_search(e, n, i + 1, stop)
    ELSE LET p == i
             q == n \div i
             accepted == {p * q = n /\ bp /\ bq :
                            bp \in is_prime(p, DefaultRounds),
                            bq \in is_prime(q, DefaultRounds)}
         IN  (IF TRUE \in accepted
              THEN {mod_inverse(e, (p - 1) * (q - 1))} ELSE {})
             \cup
             (IF FALSE \in accepted
              THEN small_modulus_search(e, n, i + 1, stop) ELSE {})

\* attack_small_modulus(e, n, max_trial); math.sqrt raises on n < 0
attack_small_modulus(e, n, max_trial) ==
    IF n < 0 THEN {Raise("ValueError")}
    ELSE small_modulus_search(e, n, 2, Min(max_trial, isqrt(n) + 1))

(***************************************************************************)
(* small_e_attack.py                                                       *)
(***************************************************************************)
DefaultPrecision == 100

RECURSIVE nth_root_search_returns_low(_, _, _, _)
\* the binary search returning low, not high, when it finds no exact root
nth_root_search_returns_low(x, n, low, high) ==
    IF low > high THEN low
    ELSE LET mid == (low + high) \div 2
             mid_n == Pow(mid, n)
         IN  IF mid_n = x THEN mid
             ELSE IF mid_n < x THEN nth_root_search_returns_low(x, n, mid + 1, high)
             ELSE nth_root_search_returns_low(x, n, low, mid - 1)

RECURSIVE nth_root_search(_, _, _, _)
\* the binary search, lines 38-49
nth_root_search(x, n, low, high) ==
    IF low > high THEN high
    ELSE LET mid == (low + high) \div 2
             mid_n == Pow(mid, n)
         IN  IF mid_n = x THEN mid
             ELSE IF mid_n < x THEN nth_root_search(x, n, mid + 1, high)
             ELSE nth_root_search(x, n, low, mid - 1)

\* integer_nth_root(x, n) for n >= 1
integer_nth_root(x, n) ==
    IF x < 0 THEN Raise("ValueError")
    ELSE IF x = 0 \/ x = 1 THEN IntVal(x)
    ELSE IntVal(nth_root_search(x, n, 0, x))

RECURSIVE newton_iterate(_, _, _, _)
\* the for loop, lines 72-78, with `steps` iterations left; r # 0
newton_iterate(x, n, r, steps) ==
    IF steps <= 0 THEN r
    ELSE LET r_new == PyFloorDiv((n - 1) * r + PyFloorDiv(x, Pow(r, n - 1)), n) IN
         IF r_new >= r THEN r ELSE newton_iterate(x, n, r_new, steps - 1)

RECURSIVE newton_decrement(_, _, _)
\* while r ** n > x: r -= 1, lines 81-82
newton_decrement(x, n, r) ==
    IF Pow(r, n) > x THEN newton_decrement(x, n, r - 1) ELSE r

RECURSIVE newton_increment(_, _, _)
\* while (r + 1) ** n <= x: r += 1, lines 83-84
newton_increment(x, n, r) ==
    IF Pow(r + 1, n) <= x THEN newton_increment(x, n, r + 1) ELSE r

\* the Newton loop's result returned without the two adjusting loops
newton_nth_root_unadjusted(x, n, precision) ==
    IF x = 0 THEN IntVal(0)
    ELSE IF x < 0 /\ n % 2 = 0 THEN Hang
    ELSE IntVal(newton_iterate(x, n, x, precision))

\* newton_nth_root(x, n, precision) for n >= 1.  For x < 0 and even n the
\* loop `while r ** n > x` never exits, r ** n being >= 0 for every r.
newton_nth_root(x, n, precision) ==
    IF x = 0 THEN IntVal(0)
    ELSE IF x < 0 /\ n % 2 = 0 THEN Hang
    ELSE IntVal(newton_increment(x, n,
                    newton_decrement(x, n, newton_iterate(x, n, x, precision))))

\* the loop body returning the root without re-exponentiating it
small_e_try_unverified(n, e, ciphertext, k) ==
    newton_nth_root(ciphertext + k * n, e, DefaultPrecision)

\* one pass of the loop body of attack_small_e, lines 156-172, at offset k:
\* the recovered m, None to go on, or Hang when the root never returns
small_e_try(n, e, ciphertext, k) ==
    LET target == ciphertext + k * n
        m == newton_nth_root(target, e, DefaultPrecision)
    IN  IF m = Hang THEN Hang
        ELSE IF Pow(m.x, e) = target THEN m
        ELSE None

(***************************************************************************)
(* low_exponent_attack.py                                                  *)
(***************************************************************************)
RECURSIVE nth_root_loop(_, _, _, _)
\* the binary search of nth_root, lines 39-51: the exact root, or None
nth_root_loop(x, n, low, high) ==
    IF low > high THEN None
    ELSE LET mid == (low + high) \div 2
             mid_pow == Pow(mid, n)
         IN  IF mid_pow = x THEN IntVal(mid)
             ELSE IF mid_pow < x THEN nth_root_loop(x, n, mid + 1, high)
             ELSE nth_root_loop(x, n, low, mid - 1)

\* the nested nth_root(x, n) for n >= 0
nth_root(x, n) ==
    IF x < 0 THEN None
    ELSE IF x = 0 THEN IntVal(0)
    ELSE nth_root_loop(x, n, 0, x)

\* attack_low_public_exponent(c, e, n) for e >= 0; pow(m, e, n) raises
\* ValueError for n = 0 and takes the sign of n otherwise
attack_low_public_exponent(c, e, n) ==
    LET m == nth_root(c, e) IN
    IF m = None THEN None
    ELSE IF n = 0 THEN Raise("ValueError")
    ELSE IF PyMod(Pow(m.x, e), n) = c THEN m
    ELSE None

(***************************************************************************)
(* wiener_attack.py                                                        *)
(***************************************************************************)
RECURSIVE continued_fraction_expansion(_, _)
\* the while loop, lines 37-43: the list cf of quotients
continued_fraction_expansion(numerator, denominator) ==
    IF denominator = 0 THEN <<>>
    ELSE LET q == PyFloorDiv(numerator, denominator) IN
         <<q>> \o continued_fraction_expansion(denominator, numerator - q * denominator)

RECURSIVE convergents_loop_without_prev2(_, _, _, _, _, _)
\* the recurrence of the denominators with its q_{i-2} term dropped
convergents_loop_without_prev2(cf, i, p_prev2, p_prev1, q_prev2, q_prev1) ==
    IF i > Len(cf) THEN <<>>
    ELSE LET p_curr == cf[i] * p_prev1 + p_prev2
             q_curr == cf[i] * q_prev1
         IN  <<(<<p_curr, q_curr>>)>>
                \o convergents_loop_without_prev2(cf, i + 1, p_prev1, p_curr,
                                                  q_prev1, q_curr)

RECURSIVE convergents_loop(_, _, _, _, _, _)
\* the for loop over i, lines 70-80 (cf is indexed from 1 here)
convergents_loop(cf, i, p_prev2, p_prev1, q_prev2, q_prev1) ==
    IF i > Len(cf) THEN <<>>
    ELSE LET p_curr == cf[i] * p_prev1 + p_prev2
             q_curr == cf[i] * q_prev1 + q_prev2
         IN  <<(<<p_curr, q_curr>>)>>
                \o convergents_loop(cf, i + 1, p_prev1, p_curr, q_prev1, q_curr)

\* convergents_from_cf(cf) for a non-empty cf: the list of (p_i, q_i)
convergents_from_cf(cf) ==
    <<(<<cf[1], 1>>)>> \o convergents_loop(cf, 2, 1, cf[1], 0, 1)

is_perfect_square(n) ==
    IF n < 0 THEN FALSE ELSE isqrt(n) * isqrt(n) = n

\* the discriminant with the sign of 4ac flipped
solve_quadratic_wrong_sign(a, b, c) ==
    LET discriminant == b * b + 4 * a * c
        sqrt_discriminant == isqrt(discriminant)
    IN  IF discriminant < 0 THEN None
        ELSE IF ~is_perfect_square(discriminant) THEN None
        ELSE IF PyMod(-b + sqrt_discriminant, 2 * a) # 0 THEN None
        ELSE Tuple2(PyFloorDiv(-b + sqrt_discriminant, 2 * a),
                    PyFloorDiv(-b - sqrt_discriminant, 2 * a))

\* solve_quadratic(a, b, c) for a # 0: the integer roots (x1, x2), or None
solve_quadratic(a, b, c) ==
    LET discriminant == b * b - 4 * a * c
        sqrt_discriminant == isqrt(discriminant)
    IN  IF discriminant < 0 THEN None
        ELSE IF ~is_perfect_square(discriminant) THEN None
        ELSE IF PyMod(-b + sqrt_discriminant, 2 * a) # 0 THEN None
        ELSE Tuple2(PyFloorDiv(-b + sqrt_discriminant, 2 * a),
                    PyFloorDiv(-b - sqrt_discriminant, 2 * a))

\* recover_prime_factors(n, phi): (p, q), or None
recover_prime_factors(n, phi) ==
    LET sum_pq == n - phi + 1
        roots == solve_quadratic(1, -sum_pq, n)
    IN  IF roots = None THEN None
        ELSE IF roots.x * roots.y = n /\ roots.x > 1 /\ roots.y > 1 THEN roots
        ELSE None

\* the loop body skipping the convergents with k = 1 as well as k = 0
wiener_try_skips_unit_k(n, e, k, d) ==
    IF k = 0 \/ k = 1 THEN None
    ELSE IF PyMod(e * d - 1, k) # 0 THEN None
    ELSE LET phi == PyFloorDiv(e * d - 1, k)
             factors == recover_prime_factors(n, phi)
         IN  IF factors = None THEN None
             ELSE IF (e * d) % phi = 1 THEN Tuple2(n, d)
             ELSE None

\* one pass of the loop body of wiener_attack, lines 216-248, on the
\* convergent (k, d): the key (n, d), or None to go on
wiener_try(n, e, k, d) ==
    IF k = 0 THEN None
    ELSE IF PyMod(e * d - 1, k) # 0 THEN None
    ELSE LET phi == PyFloorDiv(e * d - 1, k)
             factors == recover_prime_factors(n, phi)
         IN  IF factors = None THEN None
             ELSE IF (e * d) % phi = 1 THEN Tuple2(n, d)
             ELSE None

(***************************************************************************)
(* Inputs.                                                                 *)
(***************************************************************************)
IsPrimeNumber(v) == v >= 2 /\ \A t \in 2..(v - 1) : v % t # 0
SmallPrimes == {v \in 2..MaxPrime : IsPrimeNumber(v)}
Moduli == (-MinN)..MaxN
FermatModuli == Moduli \cup {p * q : p \in SmallPrimes, q \in SmallPrimes}
\* attack_weak_rsa searches with the default cap of 100000 iterations; for
\* n = 2 (mod 4) the loop runs all of them, so those moduli are given to
\* fermat_factorization with small caps only
WeakRsaModuli == {n \in Moduli : n % 4 # 2}
Exponents == 1..MaxE
\* pairs of distinct primes of a comparable size, and one pair of primes
\* of very different sizes
WienerPrimes == {v \in WienerPrimeLow..WienerPrimeHigh : IsPrimeNumber(v)}
WienerPrimePairs ==
    {pq \in WienerPrimes \X WienerPrimes : pq[1] # pq[2]}
        \cup {<<2, 3299>>, <<3299, 2>>}
\* ciphertexts given with modulus n: reduced ones, and a few for n <= 0
Ciphertexts(n) == IF n >= 1 THEN 0..(n - 1) ELSE 0..MinX

(***************************************************************************)
(* The state machine.                                                      *)
(***************************************************************************)
Init ==
    /\ pc = "idle"
    /\ key = NoKey
    /\ fn = "none"
    /\ arg = NoArg
    /\ loc = NoLoc
    /\ ret = Pending

\* fermat_factorization(n, max_iterations) is called: lines 35-37
Call_fermat_factorization ==
    /\ UNCHANGED key
    /\ pc = "idle"
    /\ \E n \in FermatModuli, max_iterations \in 0..MaxIter :
        /\ fn' = "fermat_factorization"
        /\ arg' = [n |-> n, max_iterations |-> max_iterations]
        /\ IF n < 0
           THEN pc' = "done" /\ loc' = NoLoc /\ ret' = Raise("ValueError")
           ELSE pc' = "fermat_loop" /\ loc' = [a |-> fermat_start(n), i |-> 0]
                /\ ret' = Pending

\* the for loop giving up one candidate early
Fermat_iteration_one_short ==
    /\ UNCHANGED key
    /\ pc = "fermat_loop"
    /\ UNCHANGED <<fn, arg>>
    /\ IF loc.i + 1 >= arg.max_iterations
       THEN pc' = "done" /\ ret' = None /\ UNCHANGED loc
       ELSE IF fermat_try(arg.n, loc.a) # None
       THEN pc' = "done" /\ ret' = fermat_try(arg.n, loc.a) /\ UNCHANGED loc
       ELSE pc' = pc /\ ret' = ret /\ loc' = [a |-> loc.a + 1, i |-> loc.i + 1]

\* one iteration of the for loop, lines 39-54, or its exhaustion, line 56
Fermat_iteration ==
    /\ UNCHANGED key
    /\ pc = "fermat_loop"
    /\ UNCHANGED <<fn, arg>>
    /\ IF loc.i >= arg.max_iterations
       THEN pc' = "done" /\ ret' = None /\ UNCHANGED loc
       ELSE IF fermat_try(arg.n, loc.a) # None
       THEN pc' = "done" /\ ret' = fermat_try(arg.n, loc.a) /\ UNCHANGED loc
       ELSE pc' = pc /\ ret' = ret /\ loc' = [a |-> loc.a + 1, i |-> loc.i + 1]

\* attack_weak_rsa((n, e)) is called and returns, lines 69-104
Call_attack_weak_rsa ==
    /\ UNCHANGED key
    /\ pc = "idle"
    /\ \E n \in WeakRsaModuli, e \in Exponents :
        /\ fn' = "attack_weak_rsa"
        /\ arg' = [n |-> n, e |-> e]
        /\ ret' = attack_weak_rsa(n, e)
    /\ pc' = "done"
    /\ loc' = NoLoc

\* attack_small_modulus(e, n) is called with the default max_trial and returns
Call_attack_small_modulus ==
    /\ UNCHANGED key
    /\ pc = "idle"
    /\ \E n \in Moduli, e \in Exponents :
        /\ fn' = "attack_small_modulus"
        /\ arg' = [e |-> e, n |-> n, max_trial |-> DefaultMaxTrial]
        /\ ret' \in attack_small_modulus(e, n, DefaultMaxTrial)
    /\ pc' = "done"
    /\ loc' = NoLoc

\* mod_inverse(a, m) is called and returns
Call_mod_inverse ==
    /\ UNCHANGED key
    /\ pc = "idle"
    /\ \E a \in 0..MaxA, m \in 1..MaxM :
        /\ fn' = "mod_inverse"
        /\ arg' = [a |-> a, m |-> m]
        /\ ret' = mod_inverse(a, m)
    /\ pc' = "done"
    /\ loc' = NoLoc

\* attack_small_e((n, e), ciphertext, max_k) is called, line 144
Call_attack_small_e ==
    /\ UNCHANGED key
    /\ pc = "idle"
    /\ \E n \in Moduli, e \in 1..MaxDegree, max_k \in 0..MaxOffset :
        \E ciphertext \in Ciphertexts(n) :
            arg' = [n |-> n, e |-> e, ciphertext |-> ciphertext, max_k |-> max_k]
    /\ fn' = "attack_small_e"
    /\ pc' = "small_e_loop"
    /\ loc' = [k |-> 0]
    /\ ret' = Pending

\* one iteration of the for loop over k, lines 154-172, or its exhaustion,
\* line 176
Small_e_iteration ==
    /\ UNCHANGED key
    /\ pc = "small_e_loop"
    /\ UNCHANGED <<fn, arg>>
    /\ IF loc.k >= arg.max_k
       THEN pc' = "done" /\ ret' = None /\ UNCHANGED loc
       ELSE IF small_e_try(arg.n, arg.e, arg.ciphertext, loc.k) # None
       THEN /\ pc' = "done"
            /\ ret' = small_e_try(arg.n, arg.e, arg.ciphertext, loc.k)
            /\ UNCHANGED loc
       ELSE pc' = pc /\ ret' = ret /\ loc' = [k |-> loc.k + 1]

\* newton_nth_root(x, n, precision) is called and returns (or never does)
Call_newton_nth_root ==
    /\ UNCHANGED key
    /\ pc = "idle"
    /\ \E x \in (-MinX)..MaxX, n \in 1..MaxDegree, precision \in 0..MaxPrecision :
        /\ arg' = [x |-> x, n |-> n, precision |-> precision]
        /\ ret' = newton_nth_root(x, n, precision)
    /\ fn' = "newton_nth_root"
    /\ pc' = "done"
    /\ loc' = NoLoc

\* integer_nth_root(x, n) is called and returns
Call_integer_nth_root ==
    /\ UNCHANGED key
    /\ pc = "idle"
    /\ \E x \in (-MinX)..MaxX, n \in 1..MaxDegree :
        /\ arg' = [x |-> x, n |-> n]
        /\ ret' = integer_nth_root(x, n)
    /\ fn' = "integer_nth_root"
    /\ pc' = "done"
    /\ loc' = NoLoc

\* generate_weak_d_keypair, lines 274-298: two distinct primes and a
\* private exponent d coprime to phi; the public exponent is its inverse
Generate_weak_d_keypair ==
    /\ pc = "idle"
    /\ \E pq \in WienerPrimePairs, d \in 1..MaxD :
        /\ mod_inverse(d, (pq[1] - 1) * (pq[2] - 1)) # None
        /\ key' = [p |-> pq[1], q |-> pq[2], d |-> d]
    /\ pc' = "keyed"
    /\ UNCHANGED <<fn, arg, loc, ret>>

\* the lines of wiener_attack before its loop, 195-212; convergents_from_cf
\* raises IndexError on the empty expansion of e/0
wiener_enter(n, e) ==
    /\ fn' = "wiener_attack"
    /\ arg' = [n |-> n, e |-> e]
    /\ LET cf == continued_fraction_expansion(e, n) IN
       IF cf = <<>>
       THEN pc' = "done" /\ loc' = NoLoc /\ ret' = Raise("IndexError")
       ELSE /\ pc' = "wiener_loop"
            /\ loc' = [convergents |-> convergents_from_cf(cf), i |-> 1]
            /\ ret' = Pending

\* wiener_attack((n, e)) is called on a public key of any shape
Call_wiener_attack ==
    /\ pc = "idle"
    /\ \E n \in Moduli, e \in 0..MaxN : wiener_enter(n, e)
    /\ UNCHANGED key

\* wiener_attack is called on the public key of the generated pair
Call_wiener_attack_on_key ==
    /\ pc = "keyed"
    /\ LET phi == (key.p - 1) * (key.q - 1) IN
       wiener_enter(key.p * key.q, mod_inverse(key.d, phi).x)
    /\ UNCHANGED key

\* the loop over the convergents ending one convergent early
Wiener_iteration_drops_last ==
    /\ pc = "wiener_loop"
    /\ UNCHANGED <<key, fn, arg>>
    /\ IF loc.i >= Len(loc.convergents)
       THEN pc' = "done" /\ ret' = None /\ UNCHANGED loc
       ELSE LET k == loc.convergents[loc.i][1]
                d == loc.convergents[loc.i][2]
            IN  IF wiener_try(arg.n, arg.e, k, d) # None
                THEN /\ pc' = "done"
                     /\ ret' = wiener_try(arg.n, arg.e, k, d)
                     /\ UNCHANGED loc
                ELSE pc' = pc /\ ret' = ret /\ loc' = [loc EXCEPT !.i = loc.i + 1]

\* one iteration of the for loop over the convergents, lines 216-248, or
\* its exhaustion, line 252
Wiener_iteration ==
    /\ pc = "wiener_loop"
    /\ UNCHANGED <<key, fn, arg>>
    /\ IF loc.i > Len(loc.convergents)
       THEN pc' = "done" /\ ret' = None /\ UNCHANGED loc
       ELSE LET k == loc.convergents[loc.i][1]
                d == loc.convergents[loc.i][2]
            IN  IF wiener_try(arg.n, arg.e, k, d) # None
                THEN /\ pc' = "done"
                     /\ ret' = wiener_try(arg.n, arg.e, k, d)
                     /\ UNCHANGED loc
                ELSE pc' = pc /\ ret' = ret /\ loc' = [loc EXCEPT !.i = loc.i + 1]

\* is_prime(n, k) is called: the tests before the witness loop, lines 30-41
Call_is_prime ==
    /\ UNCHANGED key
    /\ pc = "idle"
    /\ \E n \in (-MinX)..MaxX, k \in 0..MaxRounds :
        /\ arg' = [n |-> n, k |-> k]
        /\ IF n < 2 THEN pc' = "done" /\ loc' = NoLoc /\ ret' = BoolVal(FALSE)
           ELSE IF n = 2 \/ n = 3
           THEN pc' = "done" /\ loc' = NoLoc /\ ret' = BoolVal(TRUE)
           ELSE IF n % 2 = 0
           THEN pc' = "done" /\ loc' = NoLoc /\ ret' = BoolVal(FALSE)
           ELSE pc' = "is_prime_loop" /\ loc' = [round |-> 0, a |-> 0]
                /\ ret' = Pending
    /\ fn' = "is_prime"

\* one round of the witness loop with a drawn by random.randrange(2, n - 1),
\* lines 44-56, or the end of the loop, line 58
Is_prime_round ==
    /\ UNCHANGED key
    /\ pc = "is_prime_loop"
    /\ UNCHANGED <<fn, arg>>
    /\ IF loc.round >= arg.k
       THEN pc' = "done" /\ ret' = BoolVal(TRUE) /\ UNCHANGED loc
       ELSE \E a \in 2..(arg.n - 2) :
                IF round_passes(arg.n, a)
                THEN pc' = pc /\ ret' = ret
                     /\ loc' = [round |-> loc.round + 1, a |-> a]
                ELSE pc' = "done" /\ ret' = BoolVal(FALSE)
                     /\ loc' = [round |-> loc.round, a |-> a]

\* continued_fraction_expansion(numerator, denominator) is called, line 35
Call_continued_fraction_expansion ==
    /\ UNCHANGED key
    /\ pc = "idle"
    /\ \E numerator \in 0..MaxN, denominator \in 0..MaxN :
        /\ arg' = [numerator |-> numerator, denominator |-> denominator]
        /\ loc' = [cf |-> <<>>, numerator |-> numerator, denominator |-> denominator]
    /\ fn' = "continued_fraction_expansion"
    /\ pc' = "cf_loop"
    /\ ret' = Pending

\* the while loop that stops at a denominator of 1 instead of 0
Cf_iteration_stops_at_one ==
    /\ UNCHANGED key
    /\ pc = "cf_loop"
    /\ UNCHANGED <<fn, arg>>
    /\ IF loc.denominator <= 1
       THEN pc' = "done" /\ ret' = ListVal(Len(loc.cf)) /\ UNCHANGED loc
       ELSE LET q == PyFloorDiv(loc.numerator, loc.denominator) IN
            /\ loc' = [cf |-> Append(loc.cf, q),
                       numerator |-> loc.denominator,
                       denominator |-> loc.numerator - q * loc.denominator]
            /\ pc' = pc /\ ret' = ret

\* one iteration of the while loop, lines 37-43, or its end and the
\* return of cf, line 45
Cf_iteration ==
    /\ UNCHANGED key
    /\ pc = "cf_loop"
    /\ UNCHANGED <<fn, arg>>
    /\ IF loc.denominator = 0
       THEN pc' = "done" /\ ret' = ListVal(Len(loc.cf)) /\ UNCHANGED loc
       ELSE LET q == PyFloorDiv(loc.numerator, loc.denominator) IN
            /\ loc' = [cf |-> Append(loc.cf, q),
                       numerator |-> loc.denominator,
                       denominator |-> loc.numerator - q * loc.denominator]
            /\ pc' = pc /\ ret' = ret

\* attack_low_public_exponent(c, e, n) is called and returns
Call_attack_low_public_exponent ==
    /\ UNCHANGED key
    /\ pc = "idle"
    /\ \E c \in (-MinX)..MaxX, e \in 0..MaxDegree, n \in Moduli :
        /\ arg' = [c |-> c, e |-> e, n |-> n]
        /\ ret' = attack_low_public_exponent(c, e, n)
    /\ fn' = "attack_low_public_exponent"
    /\ pc' = "done"
    /\ loc' = NoLoc

\* the demo's last step, all_attacks_demo.py lines 56-70: a message is
\* encrypted with the public key and, the attack having returned a key
\* tuple, decrypted with it; pow raises TypeError on an exponent of None
Demo_decrypt ==
    /\ UNCHANGED key
    /\ pc = "done"
    /\ fn \in {"attack_weak_rsa", "wiener_attack"}
    /\ ret.tag \in {"tuple", "tuple_none"}
    /\ arg.n >= 1
    /\ \E message \in 0..Min(arg.n - 1, MaxMessage) :
        LET ciphertext == encrypt(message, <<arg.e, arg.n>>) IN
        loc' = [message |-> message,
                ciphertext |-> ciphertext,
                decrypted |-> IF ret.tag = "tuple_none" THEN Raise("TypeError")
                              ELSE IntVal(decrypt(ciphertext, <<ret.y, ret.x>>))]
    /\ pc' = "checked"
    /\ UNCHANGED <<fn, arg, ret>>

Next ==
    \/ Call_fermat_factorization
    \/ Fermat_iteration
    \/ Call_attack_weak_rsa
    \/ Call_attack_small_modulus
    \/ Call_mod_inverse
    \/ Call_attack_small_e
    \/ Small_e_iteration
    \/ Call_newton_nth_root
    \/ Call_integer_nth_root
    \/ Generate_weak_d_keypair
    \/ Call_wiener_attack
    \/ Call_wiener_attack_on_key
    \/ Wiener_iteration
    \/ Demo_decrypt
    \/ Call_is_prime
    \/ Is_prime_round
    \/ Call_attack_low_public_exponent
    \/ Call_continued_fraction_expansion
    \/ Cf_iteration

Spec == Init /\ [][Next]_vars

\* the while loop of continued_fraction_expansion, once entered, keeps
\* running: nothing else executes while the call is in progress
LiveSpec == Spec /\ WF_vars(Cf_iteration)

(***************************************************************************)
(* Properties.                                                             *)
(***************************************************************************)
Returned(f) == pc \in {"done", "checked"} /\ fn = f

Divides(t, v) == v % t = 0
\* the greatest common divisor of a >= 0 and m >= 1, from its definition
Gcd(a, m) == CHOOSE g \in 1..m :
                /\ Divides(g, a) /\ Divides(g, m)
                /\ \A h \in 1..m : Divides(h, a) /\ Divides(h, m) => h <= g

\* the shape of the state
TypeOK ==
    /\ pc \in {"idle", "keyed", "fermat_loop", "small_e_loop", "wiener_loop",
               "is_prime_loop", "cf_loop", "done", "checked"}
    /\ ret.tag \in {"pending", "None", "int", "bool", "list", "tuple", "tuple_none", "hang",
                    "ValueError", "IndexError", "ZeroDivisionError", "TypeError"}
    /\ pc \in {"done", "checked"} <=> ret # Pending

\* r is the floor of the n-th root of x
IsFloorRoot(r, x, n) == r >= 0 /\ Pow(r, n) <= x /\ x < Pow(r + 1, n)

\* C1: for n > 1, e >= 2 and m >= 0 with m^e < n, attack_small_e((n, e),
\* m^e mod n, max_k) called with the offset bound 0 returns exactly m.
C1_SmallENoReduction ==
    Returned("attack_small_e") /\ arg.max_k = 0 /\ arg.n > 1 /\ arg.e >= 2 =>
        \A m \in 0..arg.n :
            Pow(m, arg.e) < arg.n /\ arg.ciphertext = Pow(m, arg.e) % arg.n
                => ret = IntVal(m)

\* C2: for n > 1, e >= 2, m >= 0 and k >= 0 with m^e = (m^e mod n) + k*n
\* and k <= maxOffset, attack_small_e((n, e), m^e mod n, maxOffset) returns
\* exactly m.
C2_SmallEWithinOffset ==
    Returned("attack_small_e") /\ arg.n > 1 /\ arg.e >= 2 =>
        \A k \in 0..arg.max_k :
            \A m \in 0..isqrt(arg.ciphertext + k * arg.n) :
                Pow(m, arg.e) = arg.ciphertext + k * arg.n => ret = IntVal(m)

\* C5: for x >= 0, k >= 2 and every iteration cap, r = newton_nth_root(x,
\* k, precision) satisfies r >= 0 and r^k <= x < (r+1)^k, and so does
\* r = integer_nth_root(x, k).
C5_FloorRoot ==
    (Returned("newton_nth_root") \/ Returned("integer_nth_root"))
        /\ arg.x >= 0 /\ arg.n >= 2
        => ret.tag = "int" /\ IsFloorRoot(ret.x, arg.x, arg.n)

\* C5 witness: a cap that stopped Newton's iteration above the root, so
\* that the decrementing loop produced the returned floor root
C5_Witness ==
    /\ Returned("newton_nth_root")
    /\ arg.x >= 2 /\ arg.n >= 2 /\ arg.precision >= 1
    /\ newton_iterate(arg.x, arg.n, arg.x, arg.precision) > ret.x
    /\ IsFloorRoot(ret.x, arg.x, arg.n)

\* fermat_factorization answered with the two primes, in either order
FermatFound(p, q) == ret = Tuple2(p, q) \/ ret = Tuple2(q, p)

FermatRunOn(p, q) ==
    /\ Returned("fermat_factorization")
    /\ arg.n = p * q
    /\ arg.max_iterations >= Abs(p - q) \div 2 + 1

\* C3 as stated: for all primes p and q, p = 2 and p = q included,
\* fermat_factorization(p*q, max_iterations) returns {p, q} whenever
\* max_iterations >= |p-q|/2 + 1.
C3_FermatAnyPrimes ==
    \A p \in SmallPrimes, q \in SmallPrimes :
        FermatRunOn(p, q) => FermatFound(p, q)

\* C3 amended: for all primes p and q of the same parity (both odd, or
\* p = q = 2), fermat_factorization(p*q, max_iterations) returns {p, q}
\* whenever max_iterations >= |p-q|/2 + 1.
C3_FermatSameParityPrimes ==
    \A p \in SmallPrimes, q \in SmallPrimes :
        FermatRunOn(p, q) /\ p % 2 = q % 2 => FermatFound(p, q)

\* C3 witness: two distinct odd primes found with a cap of exactly
\* |p-q|/2 + 1 iterations, after the loop stepped past a failed candidate
C3_Witness ==
    \E p \in SmallPrimes, q \in SmallPrimes :
        /\ FermatRunOn(p, q) /\ p < q /\ p % 2 = 1
        /\ arg.max_iterations = (q - p) \div 2 + 1
        /\ loc.i >= 1
        /\ ret = Tuple2(p, q)

\* C6: any pair (p, q) returned by fermat_factorization(n, max_iterations)
\* satisfies p*q = n, p > 1 and q > 1; a prime n, 0 and 1 yield no pair.
C6_FermatPairVerified ==
    Returned("fermat_factorization") /\ ret.tag = "tuple"
        => ret.x * ret.y = arg.n /\ ret.x > 1 /\ ret.y > 1

\* C7: for every key (n, d) that attack_weak_rsa or wiener_attack returns
\* for a public key (n, e) and every message m with 0 <= m < n, decrypting
\* the encryption of m with the recovered key yields m.
C7_RoundTrip ==
    pc = "checked" /\ arg.n > 1 /\ 1 <= arg.e /\ arg.e < arg.n
        => loc.decrypted = IntVal(loc.message)

BelowWienerBound(d, n) == 81 * Pow(d, 4) < n

\* the two primes are of comparable size: the larger is below twice the smaller
Balanced(p, q) == (p < q /\ q < 2 * p) \/ (q < p /\ p < 2 * q)

\* wiener_attack returned on the public key of the generated pair, whose
\* primes are distinct and whose d is coprime to phi, with e = d^-1 mod phi
WienerRunOnKey ==
    /\ Returned("wiener_attack")
    /\ key # NoKey
    /\ arg.n = key.p * key.q

\* C4 as stated: for n = p*q with distinct primes p, q and every d >= 1
\* with gcd(d, phi) = 1, d < (1/3) n^(1/4) and e = d^-1 mod phi,
\* wiener_attack((n, e)) returns (n, d).
C4_WienerAnyKey ==
    WienerRunOnKey /\ BelowWienerBound(key.d, arg.n) => ret = Tuple2(arg.n, key.d)

\* C4 amended: for n = p*q with distinct primes of comparable size
\* (q < p < 2q) and every d >= 2 with gcd(d, phi) = 1, d < (1/3) n^(1/4)
\* and e = d^-1 mod phi, wiener_attack((n, e)) returns (n, d).
C4_WienerBalancedKey ==
    WienerRunOnKey /\ BelowWienerBound(key.d, arg.n)
        /\ Balanced(key.p, key.q) /\ key.d >= 2
        => ret = Tuple2(arg.n, key.d)

\* C4 witness: a key with d >= 2 below the bound whose exponent was
\* returned at a convergent after the first
C4_Witness ==
    /\ pc = "done" /\ WienerRunOnKey
    /\ BelowWienerBound(key.d, arg.n) /\ Balanced(key.p, key.q) /\ key.d >= 2
    /\ loc.i >= 2
    /\ ret = Tuple2(arg.n, key.d)

\* C9: for a modulus n <= 0, fermat_factorization, wiener_attack and
\* attack_small_e end with the explicit failure outcome: no exception, no
\* endless loop, and no pair, exponent or plaintext.
C9_NonPositiveModulusRejected ==
    /\ fn \in {"fermat_factorization", "wiener_attack", "attack_small_e"}
    /\ pc = "done"
    /\ arg.n <= 0
    => ret = None

\* attack_small_modulus accepted the factors p < q of the semiprime n and
\* its mod_inverse(e, phi) found no inverse
SmallModulusInverseFailed ==
    \E p \in 2..isqrt(Abs(arg.n)) :
        /\ IsPrimeNumber(p) /\ arg.n % p = 0 /\ IsPrimeNumber(arg.n \div p)
        /\ mod_inverse(arg.e, (p - 1) * ((arg.n \div p) - 1)) = None

\* C10: when mod_inverse finds gcd(e, phi) # 1 inside an attack, the
\* outcome is not a key and differs from the exhausted-search outcome:
\* attack_weak_rsa returns no tuple (n, None), and attack_small_modulus
\* does not return the None it returns when no factor is found.
C10_NoInverseIsDistinct ==
    /\ Returned("attack_weak_rsa") => ret.tag # "tuple_none"
    /\ Returned("attack_small_modulus") /\ SmallModulusInverseFailed
        => ret # None

\* a and b >= 0 have no common divisor above 1
Coprime(a, b) == \A t \in 2..Min(a, b) : ~(Divides(t, a) /\ Divides(t, b))

\* wiener_attack computed the convergents of e/n for e >= 1 and n >= 1
ConvergentsComputed ==
    /\ fn = "wiener_attack" /\ pc \in {"wiener_loop", "done"}
    /\ arg.e >= 1 /\ arg.n >= 1

\* C11 as stated: for e >= 1 and n >= 1 the convergents (p_i, q_i) of e/n
\* have strictly increasing denominators, q_1 > q_0 included, and
\* gcd(p_i, q_i) = 1 at every index.
C11_DenominatorsIncreaseFromStart ==
    ConvergentsComputed =>
        /\ \A i \in 1..(Len(loc.convergents) - 1) :
                loc.convergents[i + 1][2] > loc.convergents[i][2]
        /\ \A i \in 1..Len(loc.convergents) :
                Coprime(loc.convergents[i][1], loc.convergents[i][2])

\* C11 amended: for e >= 1 and n >= 1 the denominators satisfy
\* q_1 >= q_0 = 1 and q_{i+1} > q_i for every i >= 1, and gcd(p_i, q_i) = 1
\* at every index.  (The list is indexed from 1 here: entry j is (p_{j-1},
\* q_{j-1}).)
C11_DenominatorsIncreaseAfterFirst ==
    ConvergentsComputed =>
        /\ loc.convergents[1][2] = 1
        /\ \A i \in 1..(Len(loc.convergents) - 1) :
                IF i = 1
                THEN loc.convergents[2][2] >= loc.convergents[1][2]
                ELSE loc.convergents[i + 1][2] > loc.convergents[i][2]
        /\ \A i \in 1..Len(loc.convergents) :
                Coprime(loc.convergents[i][1], loc.convergents[i][2])

\* C11 witness: an expansion of at least four coefficients whose second
\* one is 1, so that q_1 = q_0 and the later denominators grow
C11_Witness ==
    /\ ConvergentsComputed
    /\ Len(loc.convergents) >= 4
    /\ loc.convergents[2][2] = loc.convergents[1][2]
    /\ loc.convergents[3][2] > loc.convergents[2][2]
    /\ loc.convergents[4][2] > loc.convergents[3][2]

\* a key with distinct primes whose private exponent is above n^(1/4):
\* n = 8549, phi = 8364, d = 11 (11^4 = 14641), e = 6083
C12_Key == [p |-> 83, q |-> 103, d |-> 11]

\* C12: there is a key (n = p*q with distinct primes, e*d = 1 mod phi,
\* d >= n^(1/4)) on which wiener_attack returns None, and it returns None
\* only after testing every convergent of e/n: on C12_Key the search is
\* exhausted, and whenever the search on a generated key is exhausted the
\* loop has passed the last convergent and no convergent passes the checks.
C12_WienerExhaustsAboveBound ==
    WienerRunOnKey /\ pc = "done" =>
        /\ key = C12_Key => ret = None
        /\ ret = None =>
            /\ loc.i = Len(loc.convergents) + 1
            /\ \A j \in 1..Len(loc.convergents) :
                    wiener_try(arg.n, arg.e, loc.convergents[j][1],
                               loc.convergents[j][2]) = None

\* C12 witness: the search on the key C12_Key, which is a valid key pair
\* with d >= n^(1/4), ended exhausted
C12_Witness ==
    /\ WienerRunOnKey /\ pc = "done" /\ key = C12_Key
    /\ IsPrimeNumber(key.p) /\ IsPrimeNumber(key.q) /\ key.p # key.q
    /\ (arg.e * key.d) % ((key.p - 1) * (key.q - 1)) = 1
    /\ Pow(key.d, 4) >= arg.n
    /\ Len(loc.convergents) >= 2
    /\ ret = None

\* C13: is_prime(x, k) returns False only for non-primes: for every prime
\* x, every number of rounds k >= 0 and every choice of the drawn witnesses
\* it returns True (for 2 and 3 without entering the witness loop), and it
\* returns False for every x < 2 and every even x > 2.
C13_PrimesAlwaysPass ==
    Returned("is_prime") =>
        /\ ret.tag = "bool"
        /\ IsPrimeNumber(arg.n) => ret = BoolVal(TRUE)
        /\ arg.n \in {2, 3} => loc = NoLoc
        /\ arg.n < 2 \/ (arg.n > 2 /\ arg.n % 2 = 0) => ret = BoolVal(FALSE)

\* C13 witness: a prime passed every one of at least two rounds, the last
\* with a witness a whose power a^d is neither 1 nor x - 1, so that the
\* squaring loop decided the round
C13_Witness ==
    /\ Returned("is_prime")
    /\ IsPrimeNumber(arg.n) /\ arg.k >= 2
    /\ loc # NoLoc /\ loc.round = arg.k
    /\ ModPow(loc.a, two_adic_split(0, arg.n - 1)[2], arg.n) \notin {1, arg.n - 1}
    /\ ret = BoolVal(TRUE)

\* the convergent (k, d) of e/n passes every check of the attack: k # 0,
\* k | (e*d - 1), and with phi = (e*d - 1)/k the polynomial
\* x^2 - (n - phi + 1)x + n has integer roots p, q > 1 with p*q = n, and
\* (e*d) mod phi = 1
PassesWienerChecks(n, e, k, d) ==
    /\ k # 0
    /\ \E t \in {PyFloorDiv(e * d - 1, k)} : k * t = e * d - 1
    /\ LET phi == PyFloorDiv(e * d - 1, k) IN
        /\ n >= 4
        /\ \E p \in 2..isqrt(n) :
                n % p = 0 /\ p + (n \div p) = n - phi + 1
        /\ (e * d) % phi = 1

\* the convergent at index j of the list computed by wiener_attack passes
ConvergentPasses(j) ==
    PassesWienerChecks(arg.n, arg.e, loc.convergents[j][1], loc.convergents[j][2])

\* C14: wiener_attack((n, e)), n # 0, walks the convergents (k, d) of e/n
\* in increasing index order and returns (n, d) for the lowest-index
\* convergent that passes every check; no later convergent is returned
\* when an earlier one passes, and None is returned exactly when no
\* convergent passes.
C14_FirstPassingConvergent ==
    fn = "wiener_attack" /\ pc \in {"wiener_loop", "done"} /\ arg.n # 0 =>
        /\ \A j \in 1..(loc.i - 1) : ~ConvergentPasses(j)
        /\ pc = "done" =>
            /\ ret.tag \in {"tuple", "None"}
            /\ ret.tag = "tuple" =>
                /\ loc.i <= Len(loc.convergents)
                /\ ConvergentPasses(loc.i)
                /\ ret = Tuple2(arg.n, loc.convergents[loc.i][2])
            /\ ret = None <=>
                \A j \in 1..Len(loc.convergents) : ~ConvergentPasses(j)

\* C14 witness: a key was returned at the fourth convergent or later after
\* an earlier convergent with k # 0 and k | (e*d - 1) was rejected
C14_Witness ==
    /\ fn = "wiener_attack" /\ pc = "done" /\ ret.tag = "tuple"
    /\ loc.i >= 4
    /\ ConvergentPasses(loc.i)
    /\ \E j \in 1..(loc.i - 1) :
        LET k == loc.convergents[j][1]
            d == loc.convergents[j][2]
        IN  k # 0 /\ PyMod(arg.e * d - 1, k) = 0 /\ ~ConvergentPasses(j)

\* the least a >= 0 with a^2 >= n, for n >= 0
CeilSqrt(n) == CHOOSE a \in 0..n : a * a >= n /\ \A c \in 0..(a - 1) : c * c < n

\* v is the square of an integer
IsSquare(v) == \E b \in 0..v : b * b = v

\* C15: for n >= 0, fermat_factorization(n, max_iterations) tests exactly
\* the candidates a = ceil(sqrt(n)), ..., ceil(sqrt(n)) + max_iterations - 1
\* in increasing order, returns (a - b, a + b) for the smallest of them with
\* a^2 - n = b^2 a perfect square, and returns None after max_iterations
\* candidates if none qualifies (always, when max_iterations = 0).
C15_FermatCandidateOrder ==
    fn = "fermat_factorization" /\ pc \in {"fermat_loop", "done"} /\ arg.n >= 0 =>
        /\ loc.a = CeilSqrt(arg.n) + loc.i
        /\ loc.i <= arg.max_iterations
        /\ \A j \in 0..(loc.i - 1) :
                ~IsSquare((CeilSqrt(arg.n) + j) * (CeilSqrt(arg.n) + j) - arg.n)
        /\ pc = "done" =>
            /\ ret.tag \in {"tuple", "None"}
            /\ ret = None <=> loc.i = arg.max_iterations
            /\ ret.tag = "tuple" =>
                \E b \in 0..loc.a :
                    /\ b * b = loc.a * loc.a - arg.n
                    /\ ret = Tuple2(loc.a - b, loc.a + b)

\* C15 witness: n is not a square, two candidates failed, the third gave
\* the pair, and the cap allowed more candidates
C15_Witness ==
    /\ fn = "fermat_factorization" /\ pc = "done" /\ arg.n >= 2
    /\ ~IsSquare(arg.n)
    /\ loc.i = 2 /\ arg.max_iterations > 3
    /\ ret.tag = "tuple" /\ ret.x * ret.y = arg.n
    /\ ret.x + ret.y = 2 * (CeilSqrt(arg.n) + 2)

\* v >= 0 is the e-th power of an integer m >= 0, e >= 1
IsExactPower(v, e) ==
    IF e = 1 THEN TRUE ELSE \E m \in 0..isqrt(v) : Pow(m, e) = v

\* C16: for n >= 1, e >= 1 and ciphertext >= 0, attack_small_e tries the
\* offsets k = 0, 1, ... in increasing order and returns the integer e-th
\* root m of ciphertext + k*n for the smallest tried k at which that value
\* is an exact e-th power; every returned m satisfies m^e = ciphertext + k*n
\* (so m^e mod n = ciphertext mod n), and None is returned exactly when no
\* tried k gives an exact e-th power.
C16_SmallEFirstMatch ==
    fn = "attack_small_e" /\ pc \in {"small_e_loop", "done"} /\ arg.n >= 1 =>
        /\ loc.k <= arg.max_k
        /\ \A j \in 0..(loc.k - 1) :
                ~IsExactPower(arg.ciphertext + j * arg.n, arg.e)
        /\ pc = "done" =>
            /\ ret.tag \in {"int", "None"}
            /\ ret.tag = "int" =>
                /\ loc.k < arg.max_k
                /\ ret.x >= 0
                /\ Pow(ret.x, arg.e) = arg.ciphertext + loc.k * arg.n
                /\ Pow(ret.x, arg.e) % arg.n = arg.ciphertext % arg.n
            /\ ret = None <=>
                \A j \in 0..(arg.max_k - 1) :
                    ~IsExactPower(arg.ciphertext + j * arg.n, arg.e)

\* C16 witness: offsets 0 and 1 gave no exact power and offset 2 gave the
\* e-th power of an m >= 2 for e >= 2
C16_Witness ==
    /\ fn = "attack_small_e" /\ pc = "done" /\ arg.n >= 1
    /\ arg.e >= 2 /\ loc.k = 2
    /\ ret.tag = "int" /\ ret.x >= 2
    /\ Pow(ret.x, arg.e) = arg.ciphertext + 2 * arg.n

\* the list returned by continued_fraction_expansion(numerator,
\* denominator), denominator >= 1, is non-empty, its coefficients are
\* non-negative, and the last convergent (p, q) computed from it satisfies
\* p * denominator = q * numerator
ExpansionExact ==
    Returned("continued_fraction_expansion") /\ arg.denominator >= 1 =>
        /\ Len(loc.cf) >= 1
        /\ loc.cf = continued_fraction_expansion(arg.numerator, arg.denominator)
        /\ \A j \in 1..Len(loc.cf) : loc.cf[j] >= 0
        /\ LET last == convergents_from_cf(loc.cf)[Len(loc.cf)] IN
            last[1] * arg.denominator = last[2] * arg.numerator

\* C17: for numerator >= 0 and denominator >= 1, continued_fraction_expansion
\* terminates (the loop ends when the remainder reaches zero) with a
\* non-empty list of non-negative coefficients whose last convergent
\* represents the fraction exactly.
C17_ExpansionTerminatesExact ==
    /\ []ExpansionExact
    /\ (pc = "cf_loop" /\ arg.denominator >= 1)
            ~> (Returned("continued_fraction_expansion") /\ loc.denominator = 0)

\* C17 witness: an expansion of at least four coefficients was returned
\* and its last convergent, in lowest terms, differs from the fraction given
C17_Witness ==
    /\ Returned("continued_fraction_expansion") /\ arg.denominator >= 1
    /\ Len(loc.cf) >= 4
    /\ loc.denominator = 0
    /\ LET last == convergents_from_cf(loc.cf)[Len(loc.cf)] IN
        /\ last[2] < arg.denominator
        /\ last[1] * arg.denominator = last[2] * arg.numerator

\* C18: for x < 0 and even k, newton_nth_root(x, k) rejects the request:
\* it terminates with an error outcome instead of looping or returning a
\* number; for x = 0 it returns 0.
C18_NegativeEvenRootRejected ==
    Returned("newton_nth_root") =>
        /\ arg.x < 0 /\ arg.n % 2 = 0 => IsException(ret)
        /\ arg.x = 0 => ret = IntVal(0)

\* attack_low_public_exponent returns m whenever c = m^e mod n with
\* m >= 0 and m^e < n
LowExponentRecovers ==
    \A m \in 0..Abs(arg.c) :
        Pow(m, arg.e) < arg.n /\ arg.c = Pow(m, arg.e) % arg.n => ret = IntVal(m)

\* a returned m has m^e = c exactly and c < n; the only other outcome is None
LowExponentSound ==
    /\ ret.tag \in {"int", "None"}
    /\ ret.tag = "int" => Pow(ret.x, arg.e) = arg.c /\ arg.c < arg.n

\* C19: for all n > 1, e >= 1 and m >= 0 with m^e < n,
\* attack_low_public_exponent(m^e mod n, e, n) returns m; and for every c,
\* e, n, whenever it returns a non-None m, then m^e = c exactly and c < n,
\* otherwise it returns None.
C19_LowExponentExact ==
    Returned("attack_low_public_exponent") =>
        /\ arg.n > 1 /\ arg.e >= 1 => LowExponentRecovers
        /\ LowExponentSound

\* the claim of C19 for moduli n >= 1 and exponents e >= 1 only
C19_LowExponentExactValidKey ==
    Returned("attack_low_public_exponent") /\ arg.n >= 1 /\ arg.e >= 1 =>
        /\ arg.n > 1 => LowExponentRecovers
        /\ LowExponentSound

\* C20: the three integer-root routines agree on all x >= 0 and k >= 1:
\* integer_nth_root(x, k) = newton_nth_root(x, k), and the nth_root(x, k) of
\* low_exponent_attack returns that same value exactly when its k-th power
\* equals x and None otherwise.
C20_RootRoutinesAgree ==
    /\ Returned("integer_nth_root") /\ arg.x >= 0 =>
        /\ ret.tag = "int"
        /\ ret = newton_nth_root(arg.x, arg.n, DefaultPrecision)
        /\ nth_root(arg.x, arg.n) =
                IF Pow(ret.x, arg.n) = arg.x THEN ret ELSE None
    /\ Returned("newton_nth_root") /\ arg.x >= 0 =>
        /\ ret = integer_nth_root(arg.x, arg.n)
        /\ nth_root(arg.x, arg.n) =
                IF Pow(ret.x, arg.n) = arg.x THEN ret ELSE None

\* C20 witness: x is no exact k-th power, k >= 2: the two floor-root
\* routines returned the same r >= 2 and nth_root returns None
C20_Witness ==
    /\ Returned("integer_nth_root")
    /\ arg.n >= 2 /\ ret.tag = "int" /\ ret.x >= 2
    /\ Pow(ret.x, arg.n) < arg.x
    /\ ret = newton_nth_root(arg.x, arg.n, DefaultPrecision)
    /\ nth_root(arg.x, arg.n) = None

\* the number of candidates from ceil(sqrt(n)) up to (n+1)/2, for odd n >= 1
FermatOddCap(n) == (n + 1) \div 2 - CeilSqrt(n) + 1

\* C21: for every n >= 2 with n mod 4 = 2 and every max_iterations,
\* fermat_factorization(n, max_iterations) returns None, a^2 - n never
\* being a perfect square; for every odd n >= 1 it returns a pair once
\* max_iterations >= (n+1)/2 - ceil(sqrt(n)) + 1.
C21_FermatByResidue ==
    Returned("fermat_factorization") =>
        /\ arg.n >= 2 /\ arg.n % 4 = 2 =>
            /\ ret = None
            /\ \A j \in 0..arg.max_iterations :
                    ~IsSquare((CeilSqrt(arg.n) + j) * (CeilSqrt(arg.n) + j) - arg.n)
        /\ arg.n >= 1 /\ arg.n % 2 = 1
                /\ arg.max_iterations >= FermatOddCap(arg.n) =>
            ret.tag = "tuple"

\* C21 witness: an odd n >= 3 given exactly (n+1)/2 - ceil(sqrt(n)) + 1
\* iterations, of which the last one, at a = (n+1)/2, gave the pair (1, n)
C21_Witness ==
    /\ Returned("fermat_factorization")
    /\ arg.n >= 3 /\ arg.n % 2 = 1
    /\ arg.max_iterations = FermatOddCap(arg.n)
    /\ loc.i = arg.max_iterations - 1 /\ loc.i >= 2
    /\ loc.a = (arg.n + 1) \div 2
    /\ ret = Tuple2(1, arg.n)

====
